---- MODULE Spec2Model ----
(***************************************************************************)
(* Vision Guide AI (src/App.tsx): the session lifecycle, the audio         *)
(* playback scheduler, the perception classifier and the transcript        *)
(* accumulator of the App component, as a state machine.                   *)
(*                                                                         *)
(* Text is a sequence of one-character strings, so that toLowerCase,       *)
(* includes and trim are computed character by character.  Time is the     *)
(* output AudioContext's currentTime in whole units.                       *)
(***************************************************************************)
EXTENDS Integers, Sequences, FiniteSets, TLC

\* ---------------------------------------------------------------- bounds
MaxAttempts == 2
MaxClock == 1
MaxDur == 1
MaxSegs == 2
MaxLifeSegs == 1
MaxLifeClock == 1
MaxLifeTurns == 1
MaxLifeText == 5
MaxClassifyTurns == 2
MaxClassifyText == 11
MaxTurnTurns == 1
MaxTurnText == 2
MaxCommitted == 17
MaxSends == 3
MaxFrames == 2

\* ------------------------------------------------------ program constants
HistoryCap == 15

Attempts == 1..MaxAttempts

\* -------------------------------------------------------------- variables
VARIABLES
    \* React state (useState, App.tsx 49-55)
    status, perceptionState, history, currentInput, currentOutput,
    isCameraActive, errorMessage,
    \* refs (useRef, App.tsx 59-68); 0 stands for null
    sessionRef, mediaStreamRef, audioContextOutRef, nextStartTimeRef,
    sourcesRef, frameIntervalRef, activeInputRef, activeOutputRef,
    \* the environment: the component, the startSession invocations, the
    \* sockets, the device tracks, the interval timers, the output contexts'
    \* clocks, the suspended onmessage handlers, the buffer sources
    mounted, pc, socket, tracks, timers, ctxTime, pending, srcState,
    \* history variables (observations only; no action of the program reads
    \* them, the specifications read them to bound the run)
    segSeq, startLog, committed, afterInt, last, consec,
    \* the capture pipeline (App.tsx 146-184): the frames between the interval
    \* callback and their send, the number of frames captured, and the log of
    \* the calls of sendRealtimeInput (an observation)
    frames, frameSeq, sendLog

uiVars == <<status, perceptionState, history, currentInput, currentOutput,
            isCameraActive, errorMessage>>
refVars == <<sessionRef, mediaStreamRef, audioContextOutRef, nextStartTimeRef,
             sourcesRef, frameIntervalRef, activeInputRef, activeOutputRef>>
envVars == <<mounted, pc, socket, tracks, timers, ctxTime, pending, srcState>>
obsVars == <<segSeq, startLog, committed, afterInt, last, consec>>
capVars == <<frames, frameSeq, sendLog>>
vars == <<uiVars, refVars, envVars, obsVars, capVars>>

\* ------------------------------------------------------------------ text
UpperCase == <<"A","B","C","D","E","F","G","H","I","J","K","L","M",
               "N","O","P","Q","R","S","T","U","V","W","X","Y","Z">>
LowerCase == <<"a","b","c","d","e","f","g","h","i","j","k","l","m",
               "n","o","p","q","r","s","t","u","v","w","x","y","z">>
WhiteSpace == {" ", "\t", "\n"}

\* String.prototype.toLowerCase, one character
lowerChar(c) ==
    IF \E i \in 1..26 : UpperCase[i] = c
    THEN LowerCase[CHOOSE i \in 1..26 : UpperCase[i] = c]
    ELSE c

\* String.prototype.toLowerCase
toLowerCase(s) == [i \in 1..Len(s) |-> lowerChar(s[i])]

\* String.prototype.includes
includes(s, k) ==
    \E i \in 0..(Len(s) - Len(k)) : \A j \in 1..Len(k) : s[i + j] = k[j]

\* String.prototype.trim
trim(s) ==
    LET keep == {i \in 1..Len(s) : s[i] \notin WhiteSpace}
    IN  IF keep = {} THEN <<>>
        ELSE LET lo == CHOOSE i \in keep : \A j \in keep : i <= j
                 hi == CHOOSE i \in keep : \A j \in keep : j <= i
             IN  SubSeq(s, lo, hi)

\* Array.prototype.slice(-n)
sliceLast(s, n) == IF Len(s) <= n THEN s ELSE SubSeq(s, Len(s) - n + 1, Len(s))

\* Math.max
Max(a, b) == IF a >= b THEN a ELSE b

\* ------------------------------------------------------------ environment
\* WebSocket.close() as seen by the socket: a connecting or open socket starts
\* closing (its close event is still to come); otherwise nothing happens.
closeSocket(sock, a) ==
    IF sock[a] \in {"connecting", "open"} THEN [sock EXCEPT ![a] = "closing"] ELSE sock

\* A plausible slip: the sources are dropped from the queue but not stopped.
stopAllNone(sst, srcs) == sst

\* AudioBufferSourceNode.stop() on every source of a set: a playing source is
\* stopped; a source that already finished stays finished (the call is inside
\* try/catch and raises nothing).
stopAll(sst, srcs) ==
    [s \in DOMAIN sst |-> IF s \in srcs /\ sst[s] = "playing" THEN "stopped" ELSE sst[s]]

\* AudioBufferSourceNode.start(when): playback begins at `when`, or at once
\* when `when` is already in the past.
beginsAt(when, now) == Max(when, now)

\* The part of the state cleanupSession reads or writes, as a record.
Cur ==
    [sessionRef |-> sessionRef, socket |-> socket,
     frameIntervalRef |-> frameIntervalRef, timers |-> timers,
     mediaStreamRef |-> mediaStreamRef, tracks |-> tracks,
     sourcesRef |-> sourcesRef, srcState |-> srcState,
     nextStartTimeRef |-> nextStartTimeRef,
     status |-> status, perceptionState |-> perceptionState,
     isCameraActive |-> isCameraActive,
     activeInputRef |-> activeInputRef, activeOutputRef |-> activeOutputRef,
     currentInput |-> currentInput, currentOutput |-> currentOutput]

Apply(t) ==
    /\ sessionRef' = t.sessionRef /\ socket' = t.socket
    /\ frameIntervalRef' = t.frameIntervalRef /\ timers' = t.timers
    /\ mediaStreamRef' = t.mediaStreamRef /\ tracks' = t.tracks
    /\ sourcesRef' = t.sourcesRef /\ srcState' = t.srcState
    /\ nextStartTimeRef' = t.nextStartTimeRef
    /\ status' = t.status /\ perceptionState' = t.perceptionState
    /\ isCameraActive' = t.isCameraActive
    /\ activeInputRef' = t.activeInputRef /\ activeOutputRef' = t.activeOutputRef
    /\ currentInput' = t.currentInput /\ currentOutput' = t.currentOutput

\* ---------------------------------------------------------- cleanupSession
\* A plausible slip: the playback clock is not reset.
cleanupSessionKeepClock(s) ==
    [s EXCEPT
        !.socket = IF s.sessionRef # 0 THEN closeSocket(s.socket, s.sessionRef) ELSE s.socket,
        !.sessionRef = 0,
        !.timers = IF s.frameIntervalRef # 0 THEN s.timers \ {s.frameIntervalRef} ELSE s.timers,
        !.frameIntervalRef = 0,
        !.tracks = IF s.mediaStreamRef # 0 THEN s.tracks \ {s.mediaStreamRef} ELSE s.tracks,
        !.mediaStreamRef = 0,
        !.srcState = stopAll(s.srcState, s.sourcesRef),
        !.sourcesRef = {},
        !.status = "DISCONNECTED",
        !.perceptionState = "IDLE",
        !.isCameraActive = FALSE,
        !.activeInputRef = <<>>, !.activeOutputRef = <<>>,
        !.currentInput = <<>>, !.currentOutput = <<>>]

\* App.tsx 77-101
cleanupSession(s) ==
    [s EXCEPT
        !.socket = IF s.sessionRef # 0 THEN closeSocket(s.socket, s.sessionRef) ELSE s.socket,
        !.sessionRef = 0,
        !.timers = IF s.frameIntervalRef # 0 THEN s.timers \ {s.frameIntervalRef} ELSE s.timers,
        !.frameIntervalRef = 0,
        !.tracks = IF s.mediaStreamRef # 0 THEN s.tracks \ {s.mediaStreamRef} ELSE s.tracks,
        !.mediaStreamRef = 0,
        !.srcState = stopAll(s.srcState, s.sourcesRef),
        !.sourcesRef = {},
        !.nextStartTimeRef = 0,
        !.status = "DISCONNECTED",
        !.perceptionState = "IDLE",
        !.isCameraActive = FALSE,
        !.activeInputRef = <<>>, !.activeOutputRef = <<>>,
        !.currentInput = <<>>, !.currentOutput = <<>>]

\* ----------------------------------------------------------- observations
\* The observation of a step that is not an onmessage body.
NoMsg ==
    [op |-> "none", interrupted |-> FALSE, queue |-> {}, hasOut |-> FALSE,
     outText |-> <<>>, prevPerc |-> "IDLE", tc |-> FALSE, prevHist |-> <<>>,
     preIn |-> <<>>, preOut |-> <<>>, frag |-> <<>>, dropped |-> FALSE]

\* An interruption or a teardown separates what was received before it from
\* what comes after: the log entries and the suspended handlers are marked.
cutLog(log) == [i \in 1..Len(log) |-> [log[i] EXCEPT !.cut = TRUE]]
cutPending(ps) == {[p EXCEPT !.cut = TRUE] : p \in ps}

\* What every step that runs cleanupSession observes.
CleanupObs ==
    /\ last' = NoMsg
    /\ consec' = IF consec < 2 THEN consec + 1 ELSE 2
    /\ startLog' = cutLog(startLog)
    /\ pending' = cutPending(pending)
    /\ afterInt' = FALSE
    /\ UNCHANGED <<segSeq, committed>>
    /\ UNCHANGED capVars

\* What a step that runs neither cleanupSession nor an onmessage body observes.
PlainObs ==
    /\ last' = NoMsg
    /\ consec' = 0
    /\ UNCHANGED <<segSeq, startLog, committed, afterInt>>
    /\ UNCHANGED capVars

\* ------------------------------------------------------------------- Init
Init ==
    /\ status = "DISCONNECTED" /\ perceptionState = "IDLE" /\ history = <<>>
    /\ currentInput = <<>> /\ currentOutput = <<>>
    /\ isCameraActive = FALSE /\ errorMessage = "null"
    /\ sessionRef = 0 /\ mediaStreamRef = 0 /\ audioContextOutRef = 0
    /\ nextStartTimeRef = 0 /\ sourcesRef = {} /\ frameIntervalRef = 0
    /\ activeInputRef = <<>> /\ activeOutputRef = <<>>
    /\ mounted = TRUE
    /\ pc = [a \in Attempts |-> "idle"]
    /\ socket = [a \in Attempts |-> "none"]
    /\ tracks = {} /\ timers = {} /\ ctxTime = <<>> /\ pending = {}
    /\ srcState = <<>>
    /\ segSeq = 0 /\ startLog = <<>> /\ committed = <<>>
    /\ afterInt = FALSE /\ last = NoMsg /\ consec = 0
    /\ frames = {} /\ frameSeq = 0 /\ sendLog = <<>>

\* ------------------------------------------------------------- lifecycle
\* The Connect button (App.tsx 290-299) runs startSession up to its first
\* await (103-117): invocation a is the next unused one.
ClickConnect(a) ==
    /\ mounted /\ status \in {"DISCONNECTED", "ERROR"}
    /\ pc[a] = "idle" /\ \A b \in Attempts : b < a => pc[b] # "idle"
    /\ errorMessage' = "null"
    /\ status' = "CONNECTING"
    /\ pc' = [pc EXCEPT ![a] = "gum1"]
    /\ UNCHANGED <<perceptionState, history, currentInput, currentOutput, isCameraActive>>
    /\ UNCHANGED refVars
    /\ UNCHANGED <<mounted, socket, tracks, timers, ctxTime, pending, srcState>>
    /\ PlainObs

\* The Stop button (App.tsx 290-299) runs cleanupSession.
ClickStop ==
    /\ mounted /\ status \in {"CONNECTING", "CONNECTED"}
    /\ Apply(cleanupSession(Cur))
    /\ UNCHANGED <<history, errorMessage, audioContextOutRef, mounted, pc, ctxTime>>
    /\ CleanupObs

\* The effect's cleanup on unmount (App.tsx 262) runs cleanupSession.
Unmount ==
    /\ mounted
    /\ mounted' = FALSE
    /\ Apply(cleanupSession(Cur))
    /\ UNCHANGED <<history, errorMessage, audioContextOutRef, pc, ctxTime>>
    /\ CleanupObs

\* A plausible slip: the rejection of the first request is shown as an error.
firstRequestRejectedError(s) == [s EXCEPT !.status = "ERROR"]

\* App.tsx 118: the inner catch binds mediaErr and reads nothing of it and
\* writes nothing: the state is as it was.
firstRequestRejected(s) == s

\* The first getUserMedia is rejected with err (App.tsx 118-119): whatever
\* the error, the second request, with default constraints, is issued.
GumFallback(a, err) ==
    /\ pc[a] = "gum1"
    /\ pc' = [pc EXCEPT ![a] = "gum2"]
    /\ Apply(firstRequestRejected(Cur))
    /\ UNCHANGED <<history, errorMessage, audioContextOutRef>>
    /\ UNCHANGED <<mounted, ctxTime, pending>>
    /\ PlainObs

\* getUserMedia resolves (App.tsx 110-128): the stream is stored, the camera
\* flag set, both AudioContexts created; their resume() calls are awaited.
GumResolve(a) ==
    /\ pc[a] \in {"gum1", "gum2"}
    /\ tracks' = tracks \cup {a}
    /\ mediaStreamRef' = a
    /\ isCameraActive' = TRUE
    /\ audioContextOutRef' = a
    /\ ctxTime' = (a :> 0) @@ ctxTime
    /\ pc' = [pc EXCEPT ![a] = "resume"]
    /\ UNCHANGED <<status, perceptionState, history, currentInput, currentOutput, errorMessage>>
    /\ UNCHANGED <<sessionRef, nextStartTimeRef, sourcesRef, frameIntervalRef,
                   activeInputRef, activeOutputRef>>
    /\ UNCHANGED <<mounted, socket, timers, pending, srcState>>
    /\ last' = [NoMsg EXCEPT !.op = IF pc[a] = "gum2" THEN "fallback" ELSE "none"]
    /\ consec' = 0
    /\ UNCHANGED <<segSeq, startLog, committed, afterInt>>
    /\ UNCHANGED capVars

\* Both resume() calls have settled (App.tsx 127-128, nothing is written
\* between them); ai.live.connect is called and its promise awaited (130-141,
\* 249).
Resumed(a) ==
    /\ pc[a] = "resume"
    /\ pc' = [pc EXCEPT ![a] = "connect"]
    /\ socket' = [socket EXCEPT ![a] = "connecting"]
    /\ UNCHANGED uiVars /\ UNCHANGED refVars
    /\ UNCHANGED <<mounted, tracks, timers, ctxTime, pending, srcState>>
    /\ PlainObs

\* The message chosen by startSession's catch (App.tsx 252-256).
catchMessage(err) ==
    IF err = "NotAllowedError" THEN "Permission denied. Enable Camera/Mic."
    ELSE "Link failed. Check network."

\* A plausible slip: the status is set after the teardown.
catchStateErrorLast(s) == [cleanupSession(s) EXCEPT !.status = "ERROR"]

\* App.tsx 257-258: setStatus(ERROR), then cleanupSession.
catchState(s) == cleanupSession([s EXCEPT !.status = "ERROR"])

\* startSession's catch (App.tsx 250-259), entered by invocation a with the
\* sockets as sock.
StartFailed(a, err, sock) ==
    /\ errorMessage' = catchMessage(err)
    /\ Apply(catchState([Cur EXCEPT !.socket = sock]))
    /\ pc' = [pc EXCEPT ![a] = "failed"]
    /\ UNCHANGED <<history, audioContextOutRef, mounted, ctxTime>>
    /\ CleanupObs

\* The second getUserMedia is rejected too (App.tsx 119, 250-259).
GumReject(a, err) ==
    /\ pc[a] = "gum2"
    /\ StartFailed(a, err, socket)

\* ai.live.connect rejects (App.tsx 249-259).
ConnectReject(a, err) ==
    /\ pc[a] = "connect" /\ socket[a] = "connecting"
    /\ StartFailed(a, err, [socket EXCEPT ![a] = "closed"])

\* The socket opens: the onopen callback runs (App.tsx 142-185), then the
\* connect promise resolves and startSession stores the session (249).
OnOpen(a) ==
    /\ socket[a] = "connecting" /\ pc[a] = "connect"
    /\ socket' = [socket EXCEPT ![a] = "open"]
    /\ status' = "CONNECTED"
    /\ perceptionState' = "SCANNING"
    /\ frameIntervalRef' = a
    /\ timers' = timers \cup {a}
    /\ sessionRef' = a
    /\ pc' = [pc EXCEPT ![a] = "done"]
    /\ UNCHANGED <<history, currentInput, currentOutput, isCameraActive, errorMessage>>
    /\ UNCHANGED <<mediaStreamRef, audioContextOutRef, nextStartTimeRef, sourcesRef,
                   activeInputRef, activeOutputRef>>
    /\ UNCHANGED <<mounted, tracks, ctxTime, pending, srcState>>
    /\ PlainObs

\* The onerror callback (App.tsx 241-245); the socket's close event follows.
OnError(a) ==
    /\ socket[a] \in {"connecting", "open"}
    /\ errorMessage' = "Link disrupted. Auto-reconnecting..."
    /\ Apply(cleanupSession([Cur EXCEPT !.socket = [socket EXCEPT ![a] = "closing"]]))
    /\ UNCHANGED <<history, audioContextOutRef, mounted, pc, ctxTime>>
    /\ CleanupObs

\* The onclose callback (App.tsx 246): the remote side closed the socket, or
\* the close event of an earlier close() or error arrives.
OnClose(a) ==
    /\ socket[a] \in {"open", "closing"}
    /\ Apply(cleanupSession([Cur EXCEPT !.socket = [socket EXCEPT ![a] = "closed"]]))
    /\ UNCHANGED <<history, errorMessage, audioContextOutRef, mounted, pc, ctxTime>>
    /\ CleanupObs

\* -------------------------------------------------------------- onmessage
\* The keywords of App.tsx 217-221.
LockingWords == {<<"f","o","u","n","d">>, <<"a","c","q","u","i","r","e","d">>,
                 <<"s","e","e"," ","i","t">>}
GuidingWords == {<<"s","t","e","p">>, <<"m","o","v","e">>, <<"l","e","f","t">>,
                 <<"r","i","g","h","t">>, <<"a","h","e","a","d">>}
ScanningWords == {<<"s","c","a","n","n","i","n","g">>,
                  <<"l","o","s","t"," ","s","i","g","h","t">>,
                  <<"l","o","o","k","i","n","g">>}

includesAny(lower, words) == \E w \in words : includes(lower, w)

\* A plausible slip: the Guiding test comes first.
classifyGuidingFirst(lower, prev) ==
    IF includesAny(lower, GuidingWords) THEN "GUIDING"
    ELSE IF includesAny(lower, LockingWords) THEN "LOCKING"
    ELSE IF includesAny(lower, ScanningWords) THEN "SCANNING"
    ELSE prev

\* A plausible slip: once Locking, the state is held whatever comes next.
classifyLatched(lower, prev) ==
    IF prev = "LOCKING" \/ includesAny(lower, LockingWords) THEN "LOCKING"
    ELSE IF includesAny(lower, GuidingWords) THEN "GUIDING"
    ELSE IF includesAny(lower, ScanningWords) THEN "SCANNING"
    ELSE prev

\* App.tsx 217-223: the perception state set (or left) by the if / else-if chain.
classify(lower, prev) ==
    IF includesAny(lower, LockingWords) THEN "LOCKING"
    ELSE IF includesAny(lower, GuidingWords) THEN "GUIDING"
    ELSE IF includesAny(lower, ScanningWords) THEN "SCANNING"
    ELSE prev

\* App.tsx 231-232: the turns a completed turn contributes.
newTurns(finalInput, finalOutput) ==
    (IF finalInput # <<>> THEN <<[role |-> "user", text |-> finalInput]>> ELSE <<>>)
    \o (IF finalOutput # <<>> THEN <<[role |-> "model", text |-> finalOutput]>> ELSE <<>>)

\* A plausible slip: slice(0, 15) keeps the oldest entries.
commitTurnKeepOldest(prev, finalInput, finalOutput) ==
    IF finalInput # <<>> \/ finalOutput # <<>>
    THEN LET all == prev \o newTurns(finalInput, finalOutput)
         IN  IF Len(all) <= HistoryCap THEN all ELSE SubSeq(all, 1, HistoryCap)
    ELSE prev

\* App.tsx 229-234: the setHistory update of a completed turn.
commitTurn(prev, finalInput, finalOutput) ==
    IF finalInput # <<>> \/ finalOutput # <<>>
    THEN sliceLast(prev \o newTurns(finalInput, finalOutput), HistoryCap)
    ELSE prev

\* A plausible slip: the buffers are committed untrimmed.
finalTextUntrimmed(buf) == buf

\* App.tsx 227-228
finalText(buf) == trim(buf)

\* A plausible slip: every segment is started at the device's current time.
startTimeNow(clock, now) == now

\* App.tsx 196: the time handed to source.start is the clock as it stands.
startTime(clock, now) == clock

\* A plausible slip: the interruption leaves the clock where it was.
interruptedClockKept(nst) == nst

\* App.tsx 204: the clock after an interruption.
interruptedClock(nst) == 0

\* App.tsx 201-239: what onmessage does after its audio part, from the queue
\* srcs, the clock nst and the source states sst the audio part left.  log,
\* pend and aInt are the observations the audio part left.
Body(m, op, srcs, nst, sst, log, pend, aInt) ==
    LET in1 == IF m.hasIn THEN activeInputRef \o m.inT ELSE activeInputRef
        out1 == IF m.hasOut THEN activeOutputRef \o m.outT ELSE activeOutputRef
        fi == finalText(in1)
        fo == finalText(out1)
    IN  /\ sourcesRef' = IF m.interrupted THEN {} ELSE srcs
        /\ srcState' = IF m.interrupted THEN stopAll(sst, srcs) ELSE sst
        /\ nextStartTimeRef' = IF m.interrupted THEN interruptedClock(nst) ELSE nst
        /\ perceptionState' =
              IF m.hasOut THEN classify(toLowerCase(out1), perceptionState)
              ELSE perceptionState
        /\ history' = IF m.turnComplete THEN commitTurn(history, fi, fo) ELSE history
        /\ activeInputRef' = IF m.turnComplete THEN <<>> ELSE in1
        /\ activeOutputRef' = IF m.turnComplete THEN <<>> ELSE out1
        /\ currentInput' = IF m.turnComplete THEN <<>>
                           ELSE IF m.hasIn THEN in1 ELSE currentInput
        /\ currentOutput' = IF m.turnComplete THEN <<>>
                            ELSE IF m.hasOut THEN out1 ELSE currentOutput
        /\ UNCHANGED <<status, isCameraActive, errorMessage>>
        /\ UNCHANGED <<sessionRef, mediaStreamRef, audioContextOutRef, frameIntervalRef>>
        /\ UNCHANGED <<mounted, pc, socket, tracks, timers, ctxTime>>
        /\ UNCHANGED capVars
        /\ startLog' = IF m.interrupted THEN cutLog(log) ELSE log
        /\ pending' = IF m.interrupted THEN cutPending(pend) ELSE pend
        /\ afterInt' = IF m.interrupted THEN TRUE ELSE aInt
        /\ committed' =
              IF m.turnComplete
              THEN committed
                   \o (IF trim(in1) # <<>> THEN <<[role |-> "user", text |-> trim(in1)]>>
                       ELSE <<>>)
                   \o (IF trim(out1) # <<>> THEN <<[role |-> "model", text |-> trim(out1)]>>
                       ELSE <<>>)
              ELSE committed
        /\ last' = [op |-> op, interrupted |-> m.interrupted, queue |-> srcs,
                    hasOut |-> m.hasOut, outText |-> out1,
                    prevPerc |-> perceptionState, tc |-> m.turnComplete,
                    prevHist |-> history, preIn |-> in1, preOut |-> out1,
                    frag |-> IF m.hasOut THEN m.outT ELSE <<>>, dropped |-> FALSE]
        /\ consec' = 0

\* The onmessage callback of session a is called with message m (App.tsx
\* 186-191).  With an audio payload it raises the clock to the device's time
\* and suspends in decodeAudioData; without one it runs its body at once.
OnMessage(a, m) ==
    /\ socket[a] = "open"
    /\ IF m.audio > 0 /\ audioContextOutRef # 0
       THEN /\ nextStartTimeRef' =
                  Max(nextStartTimeRef, ctxTime[audioContextOutRef])
            /\ pending' = pending \cup
                  {[seq |-> segSeq + 1, ctx |-> audioContextOutRef, msg |-> m,
                    arrNow |-> ctxTime[audioContextOutRef], cut |-> FALSE]}
            /\ segSeq' = segSeq + 1
            /\ UNCHANGED uiVars
            /\ UNCHANGED <<sessionRef, mediaStreamRef, audioContextOutRef, sourcesRef,
                           frameIntervalRef, activeInputRef, activeOutputRef>>
            /\ UNCHANGED <<mounted, pc, socket, tracks, timers, ctxTime, srcState>>
            /\ UNCHANGED <<startLog, committed, afterInt>>
            /\ UNCHANGED capVars
            /\ last' = NoMsg
            /\ consec' = 0
       ELSE /\ Body(m, "onmessage", sourcesRef, nextStartTimeRef, srcState,
                    startLog, pending, afterInt)
            /\ UNCHANGED segSeq

\* decodeAudioData resolves for the suspended handler p (App.tsx 191-199):
\* the source is created, started and queued, the clock advanced by the
\* buffer's duration; then the handler runs its body.
DecodeDone(p) ==
    /\ p \in pending
    /\ LET now == ctxTime[p.ctx]
           when == startTime(nextStartTimeRef, now)
           entry == [seg |-> p.seq, ctx |-> p.ctx, when |-> when,
                     dur |-> p.msg.audio, now |-> now, arrNow |-> p.arrNow,
                     clock |-> nextStartTimeRef, cut |-> p.cut, late |-> p.cut,
                     first |-> afterInt]
       IN  /\ Body(p.msg, "decoded", sourcesRef \cup {p.seq},
                   when + p.msg.audio,
                   (p.seq :> "playing") @@ srcState,
                   Append(startLog, entry), pending \ {p}, FALSE)
           /\ UNCHANGED segSeq

\* A plausible slip: a failed decode is handled like a failed session.
decodeFailedTeardown(s) == cleanupSession(s)

\* A plausible slip: the failure is caught and the turn is reset.
decodeFailedResetsTurn(s) ==
    [s EXCEPT !.activeInputRef = <<>>, !.activeOutputRef = <<>>,
              !.currentInput = <<>>, !.currentOutput = <<>>]

\* The rejection of an onmessage call is handled by nobody (App.tsx 186-240
\* has no try/catch and the caller does not await the handler): the state is
\* as it was.
decodeFailed(s) == s

\* decodeAudioData (or decode) fails for the suspended handler p: the
\* handler's promise rejects and the rest of the handler never runs.
DecodeFail(p) ==
    /\ p \in pending
    /\ pending' = pending \ {p}
    /\ Apply(decodeFailed(Cur))
    /\ UNCHANGED <<history, errorMessage, audioContextOutRef, mounted, pc, ctxTime>>
    /\ last' = [NoMsg EXCEPT !.op = "failed",
                             !.dropped = \/ p.msg.interrupted \/ p.msg.turnComplete
                                         \/ p.msg.hasIn \/ p.msg.hasOut]
    /\ consec' = 0
    /\ UNCHANGED <<segSeq, startLog, committed, afterInt>>
    /\ UNCHANGED capVars

\* ----------------------------------------------------------- audio device
logOf(s) == startLog[CHOOSE i \in 1..Len(startLog) : startLog[i].seg = s]

\* The output context's clock advances.
Tick(c) ==
    /\ c \in DOMAIN ctxTime
    /\ ctxTime' = [ctxTime EXCEPT ![c] = @ + 1]
    /\ UNCHANGED uiVars /\ UNCHANGED refVars
    /\ UNCHANGED <<mounted, pc, socket, tracks, timers, pending, srcState>>
    /\ UNCHANGED obsVars
    /\ UNCHANGED capVars

\* A playing source reaches the end of its buffer.
SourceFinish(s) ==
    /\ s \in DOMAIN srcState /\ srcState[s] = "playing"
    /\ LET e == logOf(s)
       IN  ctxTime[e.ctx] >= beginsAt(e.when, e.now) + e.dur
    /\ srcState' = [srcState EXCEPT ![s] = "finished"]
    /\ UNCHANGED uiVars /\ UNCHANGED refVars
    /\ UNCHANGED <<mounted, pc, socket, tracks, timers, ctxTime, pending>>
    /\ UNCHANGED obsVars
    /\ UNCHANGED capVars

\* The ended event of a finished or stopped source is dispatched: the
\* onended callback (App.tsx 195) deletes it from the queue.
OnEnded(s) ==
    /\ s \in DOMAIN srcState /\ srcState[s] \in {"finished", "stopped"}
    /\ srcState' = [srcState EXCEPT ![s] = "ended"]
    /\ sourcesRef' = sourcesRef \ {s}
    /\ UNCHANGED uiVars
    /\ UNCHANGED <<sessionRef, mediaStreamRef, audioContextOutRef, nextStartTimeRef,
                   frameIntervalRef, activeInputRef, activeOutputRef>>
    /\ UNCHANGED <<mounted, pc, socket, tracks, timers, ctxTime, pending>>
    /\ PlainObs

\* ------------------------------------------------------- capture pipeline
\* A plausible slip: a failed send ends the session.
sendFailedTeardown(s) == cleanupSession(s)

\* App.tsx 154 and 177: .catch(() => {}) swallows what sendRealtimeInput
\* throws and what a rejected session promise carries: the state is as it was.
sendFailed(s) == s

\* sessionPromise.then(session => { if (session) session.sendRealtimeInput(..) })
\* .catch(() => {}) for the session of invocation a (App.tsx 152-154 and
\* 175-177); ok tells whether the call succeeds.  The log keeps the session
\* handle and the socket as they are when the call is made.
Send(a, kind, ok) ==
    /\ sendLog' = Append(sendLog, [att |-> a, kind |-> kind, ok |-> ok,
                                   handle |-> sessionRef, sock |-> socket[a]])
    /\ Apply(IF ok THEN Cur ELSE sendFailed(Cur))
    /\ UNCHANGED <<history, errorMessage, audioContextOutRef>>
    /\ UNCHANGED <<mounted, pc, ctxTime, pending>>
    /\ last' = NoMsg
    /\ consec' = 0
    /\ UNCHANGED <<segSeq, startLog, committed, afterInt>>

\* The onaudioprocess callback of the processor created by onopen of
\* invocation a (App.tsx 146-158).  Nothing disconnects the processor and
\* nothing closes its context, so it fires for as long as the page lives.
AudioProcess(a, ok) ==
    /\ pc[a] = "done"
    /\ Send(a, "audio", ok)
    /\ UNCHANGED <<frames, frameSeq>>

\* The interval callback of the timer started by onopen of invocation a
\* (App.tsx 160-170) draws a frame and calls canvas.toBlob; the video and the
\* canvas exist while the component is mounted.
FrameTick(a) ==
    /\ a \in timers /\ mounted
    /\ frames' = frames \cup {[att |-> a, seq |-> frameSeq + 1, stage |-> "toBlob"]}
    /\ frameSeq' = frameSeq + 1
    /\ UNCHANGED sendLog
    /\ UNCHANGED uiVars /\ UNCHANGED refVars /\ UNCHANGED envVars
    /\ last' = NoMsg
    /\ consec' = 0
    /\ UNCHANGED <<segSeq, startLog, committed, afterInt>>

\* The toBlob callback (App.tsx 170-180): with a blob it starts a FileReader,
\* without one it does nothing.
ToBlobDone(f, blob) ==
    /\ f \in frames /\ f.stage = "toBlob"
    /\ frames' = IF blob THEN (frames \ {f}) \cup {[f EXCEPT !.stage = "reader"]}
                 ELSE frames \ {f}
    /\ UNCHANGED <<frameSeq, sendLog>>
    /\ UNCHANGED uiVars /\ UNCHANGED refVars /\ UNCHANGED envVars
    /\ last' = NoMsg
    /\ consec' = 0
    /\ UNCHANGED <<segSeq, startLog, committed, afterInt>>

\* The reader's onloadend callback (App.tsx 173-178) sends the frame.
ReaderDone(f, ok) ==
    /\ f \in frames /\ f.stage = "reader"
    /\ frames' = frames \ {f}
    /\ Send(f.att, "frame", ok)
    /\ UNCHANGED frameSeq

\* ------------------------------------------------------------- the inputs
Msg(audio, interrupted, hasIn, inT, hasOut, outT, turnComplete) ==
    [audio |-> audio, interrupted |-> interrupted, hasIn |-> hasIn, inT |-> inT,
     hasOut |-> hasOut, outT |-> outT, turnComplete |-> turnComplete]

ErrKinds == {"NotAllowedError", "OtherError"}

\* Messages of the lifecycle specification.
LifeMsgs ==
    { Msg(1, FALSE, FALSE, <<>>, FALSE, <<>>, FALSE),
      Msg(0, TRUE, FALSE, <<>>, FALSE, <<>>, FALSE),
      Msg(0, FALSE, FALSE, <<>>, TRUE, <<"f","o","u","n","d">>, FALSE),
      Msg(1, TRUE, TRUE, <<"h","i">>, TRUE, <<"l","e","f","t">>, TRUE) }

\* Messages of the playback specification: audio of every duration, with or
\* without the interrupted flag, and the bare interrupted flag.
AudioMsgs ==
    { Msg(d, i, FALSE, <<>>, FALSE, <<>>, FALSE) : d \in 1..MaxDur, i \in BOOLEAN }
    \cup { Msg(0, TRUE, FALSE, <<>>, FALSE, <<>>, FALSE) }

\* Output fragments of the classifier specification: "Fou" + "nd " and
\* "look" + "ing" split a keyword over two fragments; "Left" is a keyword
\* with an upper-case letter.
ClassifyFrags ==
    { <<"F","o","u">>, <<"n","d"," ">>, <<"L","e","f","t">>, <<"l","o","o","k">>,
      <<"i","n","g">> }

ClassifyMsgs ==
    { Msg(0, FALSE, FALSE, <<>>, TRUE, o, tc) : o \in ClassifyFrags, tc \in BOOLEAN }
    \cup { Msg(0, FALSE, FALSE, <<>>, FALSE, <<>>, TRUE) }

\* Fragments of the turn specification: text and white space on both sides.
TurnFrags == { <<" ">>, <<"h">>, <<"\n">> }

TurnMsgs ==
    { Msg(0, FALSE, hi, i, ho, o, tc) :
        hi \in BOOLEAN, i \in TurnFrags, ho \in BOOLEAN, o \in TurnFrags, tc \in BOOLEAN }

\* Messages of the history specification: every message completes a turn, of
\* the model alone, of the user and the model, or of nobody.
HistMsgs ==
    { Msg(0, FALSE, FALSE, <<>>, TRUE, <<"r">>, TRUE),
      Msg(0, FALSE, TRUE, <<"q">>, TRUE, <<"r">>, TRUE),
      Msg(0, FALSE, FALSE, <<>>, FALSE, <<>>, TRUE) }

\* The bounds of a run: segments received and buffer lengths.
Within(m, maxSeg, maxText) ==
    /\ m.audio > 0 => segSeq < maxSeg
    /\ m.hasIn => Len(activeInputRef) + Len(m.inT) <= maxText
    /\ m.hasOut => Len(activeOutputRef) + Len(m.outT) <= maxText

\* --------------------------------------------------------- specifications
Next ==
    \/ \E a \in Attempts : ClickConnect(a)
    \/ ClickStop
    \/ Unmount
    \/ \E a \in Attempts, err \in ErrKinds : GumFallback(a, err)
    \/ \E a \in Attempts : GumResolve(a)
    \/ \E a \in Attempts, err \in ErrKinds : GumReject(a, err)
    \/ \E a \in Attempts : Resumed(a)
    \/ \E a \in Attempts, err \in ErrKinds : ConnectReject(a, err)
    \/ \E a \in Attempts : OnOpen(a)
    \/ \E a \in Attempts : OnError(a)
    \/ \E a \in Attempts : OnClose(a)
    \/ \E a \in Attempts, m \in LifeMsgs :
          /\ Within(m, MaxLifeSegs, MaxLifeText)
          /\ m.turnComplete => Len(committed) < MaxLifeTurns
          /\ OnMessage(a, m)
    \/ \E p \in pending : DecodeDone(p)
    \/ \E p \in pending : DecodeFail(p)
    \/ \E c \in DOMAIN ctxTime : ctxTime[c] < MaxLifeClock /\ Tick(c)
    \/ \E s \in DOMAIN srcState : SourceFinish(s)
    \/ \E s \in DOMAIN srcState : OnEnded(s)

Spec == Init /\ [][Next]_vars

\* A session just opened, as ClickConnect(1), GumResolve(1), Resumed(1),
\* OnOpen(1) leave it, with perception state and history given.
ConnectedAt(perc, hist) ==
    /\ status = "CONNECTED" /\ perceptionState = perc /\ history = hist
    /\ currentInput = <<>> /\ currentOutput = <<>>
    /\ isCameraActive = TRUE /\ errorMessage = "null"
    /\ sessionRef = 1 /\ mediaStreamRef = 1 /\ audioContextOutRef = 1
    /\ nextStartTimeRef = 0 /\ sourcesRef = {} /\ frameIntervalRef = 1
    /\ activeInputRef = <<>> /\ activeOutputRef = <<>>
    /\ mounted = TRUE
    /\ pc = [a \in Attempts |-> IF a = 1 THEN "done" ELSE "idle"]
    /\ socket = [a \in Attempts |-> IF a = 1 THEN "open" ELSE "none"]
    /\ tracks = {1} /\ timers = {1} /\ ctxTime = (1 :> 0) /\ pending = {}
    /\ srcState = <<>>
    /\ segSeq = 0 /\ startLog = <<>> /\ committed = hist
    /\ afterInt = FALSE /\ last = NoMsg /\ consec = 0
    /\ frames = {} /\ frameSeq = 0 /\ sendLog = <<>>

Connected == ConnectedAt("SCANNING", <<>>)

\* The playback scheduler of one open session.
NextAudio ==
    \/ \E m \in AudioMsgs : Within(m, MaxSegs, 0) /\ OnMessage(1, m)
    \/ \E p \in pending : DecodeDone(p)
    \/ \E p \in pending : DecodeFail(p)
    \/ \E c \in DOMAIN ctxTime : ctxTime[c] < MaxClock /\ Tick(c)
    \/ \E s \in DOMAIN srcState : SourceFinish(s)
    \/ \E s \in DOMAIN srcState : OnEnded(s)

SpecAudio == Connected /\ [][NextAudio]_vars

\* The capture pipeline of one open session and the ways the session ends.
NextCapture ==
    \/ \E a \in Attempts, ok \in BOOLEAN :
          Len(sendLog) < MaxSends /\ AudioProcess(a, ok)
    \/ \E a \in Attempts : frameSeq < MaxFrames /\ FrameTick(a)
    \/ \E f \in frames, blob \in BOOLEAN : ToBlobDone(f, blob)
    \/ \E f \in frames, ok \in BOOLEAN :
          Len(sendLog) < MaxSends /\ ReaderDone(f, ok)
    \/ ClickStop
    \/ Unmount
    \/ \E a \in Attempts : OnError(a)
    \/ \E a \in Attempts : OnClose(a)

SpecCapture == Connected /\ [][NextCapture]_vars

\* The classifier of one open session, from the start of its second turn:
\* the first turn left the model's words "look" (still Scanning), "Found"
\* (Locking) or "Left" (Guiding) in the history.
ClassifyStarts ==
    { [perc |-> "SCANNING",
       hist |-> <<[role |-> "model", text |-> <<"l","o","o","k">>]>>],
      [perc |-> "LOCKING",
       hist |-> <<[role |-> "model", text |-> <<"F","o","u","n","d">>]>>],
      [perc |-> "GUIDING",
       hist |-> <<[role |-> "model", text |-> <<"L","e","f","t">>]>>] }

InitClassify == \E s \in ClassifyStarts : ConnectedAt(s.perc, s.hist)

NextClassify ==
    \E m \in ClassifyMsgs :
        /\ Within(m, 0, MaxClassifyText)
        /\ Len(committed) < MaxClassifyTurns
        /\ OnMessage(1, m)

SpecClassify == InitClassify /\ [][NextClassify]_vars

\* The transcript accumulator of one open session.
NextTurn ==
    \E m \in TurnMsgs :
        /\ Within(m, 0, MaxTurnText)
        /\ Len(committed) < MaxTurnTurns
        /\ OnMessage(1, m)

SpecTurn == Connected /\ [][NextTurn]_vars

\* The history of one open session over many completed turns.
NextHistory ==
    \E m \in HistMsgs :
        /\ Within(m, 0, 1)
        /\ Len(committed) < MaxCommitted
        /\ OnMessage(1, m)

SpecHistory == Connected /\ [][NextHistory]_vars

\* ------------------------------------------------------------------ claims
\* C1: gapless scheduling.  For two audio segments received one after the
\* other by onmessage, with no interruption or teardown since the first was
\* received, the time given to source.start for the second is at or after the
\* scheduled end (start + duration) of the first, and is exactly that end when
\* the second is started while the device clock is still before it.
C1_Gapless ==
    \A i, j \in 1..Len(startLog) :
        LET a == startLog[i]
            b == startLog[j]
        IN  (a.seg + 1 = b.seg /\ ~a.cut /\ ~b.cut) =>
                /\ b.when >= a.when + a.dur
                /\ (b.now < a.when + a.dur => b.when = a.when + a.dur)

\* C2: an interruption clears the playback state.  Right after a message
\* with the interrupted flag has been processed the queue is empty and no
\* source that was in it is still playing; and the first segment started
\* after an interruption is given a start time that is not ahead of the
\* device's clock, so that it begins at the device's current time and not at
\* a time the clock was advanced to before the interruption.
C2_InterruptClears ==
    /\ last.interrupted =>
          /\ sourcesRef = {}
          /\ \A s \in last.queue : srcState[s] \in {"stopped", "finished"}
    /\ \A i \in 1..Len(startLog) :
          startLog[i].first =>
              /\ startLog[i].when <= startLog[i].now
              /\ beginsAt(startLog[i].when, startLog[i].now) = startLog[i].now

\* A segment was scheduled to end in the future, the interruption stopped it,
\* and the next segment was started before that end.
C2_Witness ==
    /\ Len(startLog) = 2
    /\ startLog[2].first
    /\ startLog[1].when + startLog[1].dur > startLog[2].now
    /\ srcState[startLog[1].seg] = "stopped"

\* The fields cleanupSession leaves behind.
Torn(s) ==
    /\ s.status = "DISCONNECTED" /\ s.perceptionState = "IDLE"
    /\ s.sessionRef = 0 /\ s.frameIntervalRef = 0 /\ s.mediaStreamRef = 0
    /\ s.sourcesRef = {} /\ s.nextStartTimeRef = 0
    /\ s.activeInputRef = <<>> /\ s.activeOutputRef = <<>>
    /\ s.currentInput = <<>> /\ s.currentOutput = <<>>

\* C3: teardown is idempotent.  From every reachable state cleanupSession
\* leaves status Disconnected, perception Idle, the session handle, the frame
\* timer and the media stream null, the queue empty, the clock 0 and the
\* transcript buffers empty, and a second call changes nothing; the state
\* after any step that ran cleanupSession is such a state.
C3_TeardownIdempotent ==
    /\ LET s1 == cleanupSession(Cur)
       IN  Torn(s1) /\ cleanupSession(s1) = s1
    /\ consec >= 1 => Torn(Cur)

\* cleanupSession has run twice in a row, after a session played audio.
C3_Witness == consec = 2 /\ Torn(Cur) /\ Len(startLog) > 0

\* C4: teardown is total.  Once teardown has run and no continuation is
\* pending, no session is connecting or open, the session handle is null, no
\* frame timer runs, no media track is live, no source is playing and no
\* output audio context is left open.
C4_TeardownTotal ==
    (/\ consec >= 1
     /\ pending = {}
     /\ \A a \in Attempts : pc[a] \in {"idle", "done", "failed"}) =>
        /\ \A a \in Attempts : socket[a] \notin {"connecting", "open"}
        /\ sessionRef = 0
        /\ timers = {} /\ frameIntervalRef = 0
        /\ tracks = {} /\ mediaStreamRef = 0
        /\ \A s \in DOMAIN srcState : srcState[s] # "playing"
        /\ DOMAIN ctxTime = {}

\* C5: the history holds at most HistoryCap entries and is exactly the last
\* min(HistoryCap, total) committed turns, in the order they were committed.
C5_HistoryCap ==
    /\ Len(history) <= HistoryCap
    /\ Len(history) = IF Len(committed) <= HistoryCap THEN Len(committed)
                      ELSE HistoryCap
    /\ \A i \in 1..Len(history) :
          history[i] = committed[Len(committed) - Len(history) + i]

\* More turns than the cap have been committed, of both roles, and the last
\* message committed two at once.
C5_Witness ==
    /\ Len(committed) > HistoryCap + 2
    /\ Len(history) = HistoryCap
    /\ last.tc /\ last.preIn # <<>>
    /\ history[1].role = "model" /\ history[2].role = "model"

\* C6: turn commit.  After a turn-complete signal the history is the history
\* before it, followed by a user turn when the trimmed input buffer is not
\* empty, then by a model turn when the trimmed output buffer is not empty
\* (capped to the last HistoryCap entries); it is unchanged when both are
\* empty; both buffers are empty afterwards.  No entry of the history has an
\* empty text or a text that starts or ends with white space.
C6_TurnCommit ==
    /\ last.tc =>
          LET ti == trim(last.preIn)
              to == trim(last.preOut)
              user == IF ti # <<>> THEN <<[role |-> "user", text |-> ti]>> ELSE <<>>
              model == IF to # <<>> THEN <<[role |-> "model", text |-> to]>> ELSE <<>>
          IN  /\ history = sliceLast(last.prevHist \o user \o model, HistoryCap)
              /\ (ti = <<>> /\ to = <<>>) => history = last.prevHist
              /\ activeInputRef = <<>> /\ activeOutputRef = <<>>
              /\ currentInput = <<>> /\ currentOutput = <<>>
    /\ \A i \in 1..Len(history) :
          LET x == history[i].text
          IN  /\ x # <<>>
              /\ x[1] \notin WhiteSpace
              /\ x[Len(x)] \notin WhiteSpace

\* A turn completed with " h" as input and white space alone as output:
\* exactly the user turn "h" was appended.
C6_Witness ==
    /\ last.tc
    /\ last.preIn = <<" ", "h">> /\ last.preOut = <<"\n">>
    /\ history = Append(last.prevHist, [role |-> "user", text |-> <<"h">>])

\* C7: classifier priority.  After an output-transcription fragment has been
\* appended, the perception state is Locking when the lower-cased cumulative
\* output text of the turn contains found, acquired or see it; otherwise
\* Guiding when it contains step, move, left, right or ahead; otherwise
\* Scanning when it contains scanning, lost sight or looking; otherwise what
\* it was before.
C7_Classifier ==
    last.hasOut =>
        LET lower == toLowerCase(last.outText)
            has(w) == includes(lower, w)
        IN  perceptionState =
              IF has(<<"f","o","u","n","d">>) \/ has(<<"a","c","q","u","i","r","e","d">>)
                 \/ has(<<"s","e","e"," ","i","t">>)
              THEN "LOCKING"
              ELSE IF has(<<"s","t","e","p">>) \/ has(<<"m","o","v","e">>)
                      \/ has(<<"l","e","f","t">>) \/ has(<<"r","i","g","h","t">>)
                      \/ has(<<"a","h","e","a","d">>)
              THEN "GUIDING"
              ELSE IF has(<<"s","c","a","n","n","i","n","g">>)
                      \/ has(<<"l","o","s","t"," ","s","i","g","h","t">>)
                      \/ has(<<"l","o","o","k","i","n","g">>)
              THEN "SCANNING"
              ELSE last.prevPerc

\* The turn's text is "LeftFound ": a Guiding keyword, then a Locking keyword
\* that arrived split over two fragments; the state is Locking.
C7_Witness ==
    /\ last.hasOut
    /\ last.outText = <<"L","e","f","t","F","o","u","n","d"," ">>
    /\ last.prevPerc = "GUIDING"
    /\ perceptionState = "LOCKING"

\* C8: arrival order without overlap.  For two audio segments of which the
\* first was received before the second, with no interruption or teardown
\* since the first was received, the first is given a start time no later
\* than the second's and their playback intervals do not overlap.
C8_ArrivalOrder ==
    \A i, j \in 1..Len(startLog) :
        LET a == startLog[i]
            b == startLog[j]
        IN  (a.seg < b.seg /\ ~a.cut /\ ~b.cut) =>
                /\ a.when <= b.when
                /\ (a.when + a.dur <= b.when \/ b.when + b.dur <= a.when)

\* C9: no start in the past.  The time given to source.start is the larger
\* of the playback clock and the device's current time when source.start is
\* called, hence not before the device's current time.
C9_NoStartInPast ==
    \A i \in 1..Len(startLog) :
        /\ startLog[i].when = Max(startLog[i].clock, startLog[i].now)
        /\ startLog[i].when >= startLog[i].now

\* C10: at most one session is connecting or open, and at most one frame
\* timer runs.
C10_OneSession ==
    /\ Cardinality({a \in Attempts : socket[a] \in {"connecting", "open"}}) <= 1
    /\ Cardinality(timers) <= 1

\* C11: no capture after teardown.  Every call of sendRealtimeInput, by the
\* audio producer or by the frame producer and its continuations, is made
\* while the session is still held, that is before cleanupSession has run.
C11_NoCaptureAfterTeardown ==
    \A i \in 1..Len(sendLog) : sendLog[i].handle = sendLog[i].att

\* C12: a remote error or close is fatal and never retried.  A step of
\* onerror or onclose leaves the state cleanupSession leaves, with status
\* Disconnected or Error; and from an onerror on, for as long as the user has
\* not clicked Connect (the error message of onerror is still shown), no
\* device request and no connect is issued and status stays Disconnected or
\* Error.
C12_RemoteEndFatal ==
    [][ /\ (\E a \in Attempts : OnError(a) \/ OnClose(a)) =>
              /\ status' \in {"DISCONNECTED", "ERROR"}
              /\ sessionRef' = 0 /\ frameIntervalRef' = 0 /\ mediaStreamRef' = 0
              /\ sourcesRef' = {} /\ perceptionState' = "IDLE"
        /\ (/\ errorMessage = "Link disrupted. Auto-reconnecting..."
            /\ errorMessage' = errorMessage) =>
              /\ \A a \in Attempts :
                    pc'[a] # pc[a] => pc'[a] \notin {"gum1", "gum2", "connect"}
              /\ status' \in {"DISCONNECTED", "ERROR"} ]_vars

\* C13: start failure.  A step in which startSession fails (the second
\* device request is rejected, or the connection is) sets an error message,
\* leaves the state cleanupSession leaves, with the tracks of the stream the
\* invocation had acquired stopped, and status Disconnected or Error.
C13_StartFailure ==
    [][ \A a \in Attempts :
          (\E err \in ErrKinds : GumReject(a, err) \/ ConnectReject(a, err)) =>
              /\ errorMessage' # "null"
              /\ status' \in {"DISCONNECTED", "ERROR"}
              /\ sessionRef' = 0 /\ frameIntervalRef' = 0 /\ mediaStreamRef' = 0
              /\ sourcesRef' = {} /\ perceptionState' = "IDLE"
              /\ a \notin tracks' ]_vars

\* C16: start sequence.  Status becomes Connecting only from Disconnected or
\* Error; it becomes Connected only from Connecting, by a step of onopen, and
\* perception is Scanning after that step.
C16_StartSequence ==
    [][ /\ (status' = "CONNECTING" /\ status # "CONNECTING") =>
              status \in {"DISCONNECTED", "ERROR"}
        /\ (status' = "CONNECTED" /\ status # "CONNECTED") =>
              /\ status = "CONNECTING"
              /\ perceptionState' = "SCANNING"
              /\ \E a \in Attempts : OnOpen(a) ]_vars

\* C17: perception is Idle exactly when there is no session: Idle whenever
\* status is not Connected, and Scanning, Locking or Guiding whenever it is.
C17_IdleIffNoSession ==
    /\ status # "CONNECTED" => perceptionState = "IDLE"
    /\ status = "CONNECTED" => perceptionState \in {"SCANNING", "LOCKING", "GUIDING"}

\* C19: an interruption discards the pending audio.  No segment whose
\* handler was suspended in its decode when an interruption (or a teardown)
\* was processed is started afterwards.
C19_PendingDiscarded ==
    \A i \in 1..Len(startLog) : ~startLog[i].late

\* C14: decode-error isolation.  A step in which the decode of one message
\* fails runs no teardown, leaves status (Connected) and the socket as they
\* were, removes no source from the queue and stops none, and leaves the
\* clock and the other suspended handlers as they were, so that every other
\* segment is still started when its decode completes.
C14_DecodeErrorIsolated ==
    [][ \A p \in pending :
          DecodeFail(p) =>
              /\ status' = status /\ status' = "CONNECTED"
              /\ socket' = socket
              /\ sourcesRef' = sourcesRef /\ srcState' = srcState
              /\ nextStartTimeRef' = nextStartTimeRef
              /\ pending' = pending \ {p}
              /\ consec' = 0 ]_vars

\* The decode of the first segment failed (it is neither pending nor
\* started); the second segment, received later, is playing.
C14_Witness ==
    /\ segSeq = 2 /\ pending = {}
    /\ Len(startLog) = 1 /\ startLog[1].seg = 2 /\ ~startLog[1].cut
    /\ srcState[2] = "playing" /\ sourcesRef = {2}
    /\ status = "CONNECTED"

\* C15: send failures are swallowed.  A step in which sendRealtimeInput
\* fails, for an audio block or for a frame, changes nothing of the program's
\* state (status, perception, timers, queue, session, tracks) and runs no
\* teardown, so that the producers stay as they were.
C15_SendFailuresSwallowed ==
    [][ (/\ Len(sendLog') = Len(sendLog) + 1
         /\ ~sendLog'[Len(sendLog')].ok) =>
            /\ UNCHANGED <<uiVars, refVars, envVars>>
            /\ consec' = 0 ]_vars

\* An audio block and a frame failed to be sent, and a later audio block was
\* sent on the session, which is still connected with its timer running.
C15_Witness ==
    /\ Len(sendLog) = 3
    /\ sendLog[1].kind = "audio" /\ ~sendLog[1].ok
    /\ sendLog[2].kind = "frame" /\ ~sendLog[2].ok
    /\ sendLog[3].kind = "audio" /\ sendLog[3].ok /\ sendLog[3].handle = 1
    /\ status = "CONNECTED" /\ timers = {1} /\ frames # {}

\* C18 as stated: the playback clock never decreases from one step to the
\* next, and after an interruption or a teardown it is the device's current
\* time.
C18_ClockMonotone ==
    [][ /\ nextStartTimeRef' >= nextStartTimeRef
        /\ ((last'.interrupted \/ consec' >= 1) /\ audioContextOutRef' # 0) =>
              nextStartTimeRef' = ctxTime'[audioContextOutRef'] ]_vars

\* C18 amended: the playback clock is 0 after every step that processes an
\* interruption or runs cleanupSession, and no other step decreases it; the
\* step that receives the next audio message raises it to the device's
\* current time at least.
C18_ClockResetToZero ==
    [][ /\ IF last'.interrupted \/ consec' >= 1
           THEN nextStartTimeRef' = 0
           ELSE nextStartTimeRef' >= nextStartTimeRef
        /\ segSeq' # segSeq =>
              nextStartTimeRef' >= ctxTime[audioContextOutRef] ]_vars

\* An interruption has just reset the clock of a session that had scheduled
\* a segment, while the device's time is 1.
C18_Witness ==
    /\ last.interrupted /\ nextStartTimeRef = 0
    /\ Len(startLog) = 1 /\ startLog[1].when + startLog[1].dur > 0
    /\ audioContextOutRef # 0 /\ ctxTime[audioContextOutRef] = 1

\* C20: playback queue membership.  Every playing source is in the queue;
\* every source in the queue has been started and is playing or has played
\* to its end with its onended still to be delivered; no source that was
\* force-stopped or whose onended has fired is in the queue; a source is in
\* the queue after the step that starts it, unless that same step processes
\* an interruption, which stops it.
C20_QueueMembership ==
    [][ /\ \A s \in DOMAIN srcState' :
              /\ srcState'[s] = "playing" => s \in sourcesRef'
              /\ srcState'[s] \in {"stopped", "ended"} => s \notin sourcesRef'
              /\ s \notin DOMAIN srcState =>
                    \/ s \in sourcesRef' /\ srcState'[s] = "playing"
                    \/ last'.interrupted /\ srcState'[s] = "stopped"
        /\ sourcesRef' \subseteq DOMAIN srcState' ]_vars

\* A source played to its end and its onended removed it from the queue.
C20_Witness ==
    /\ \E s \in DOMAIN srcState : srcState[s] = "ended" /\ ~logOf(s).cut
    /\ sourcesRef = {}


\* The keyword classes a fragment matched: those with a keyword that is in the
\* lower-cased text of the turn after the fragment and was not in it before.
C21_Before == SubSeq(last.outText, 1, Len(last.outText) - Len(last.frag))

C21_Matched ==
    LET after == toLowerCase(last.outText)
        before == toLowerCase(C21_Before)
        new(words) == \E w \in words : includes(after, w) /\ ~includes(before, w)
    IN  (IF new(LockingWords) THEN {"LOCKING"} ELSE {})
        \cup (IF new(GuidingWords) THEN {"GUIDING"} ELSE {})
        \cup (IF new(ScanningWords) THEN {"SCANNING"} ELSE {})

\* C21 as stated: most recent match wins.  After an output-transcription
\* fragment that matched keywords of one perception state, the perception
\* state is that state, whatever was matched earlier.
C21_MostRecentMatch ==
    (last.hasOut /\ Cardinality(C21_Matched) = 1) => C21_Matched = {perceptionState}

\* C21, amended: the most recent match wins over matches of earlier turns and
\* over matches of lower priority in the same turn.  After a fragment that
\* matched keywords of one perception state, the state is Locking when the
\* turn's text before the fragment held a Locking keyword; otherwise Guiding
\* when the fragment matched Scanning and the text before it held a Guiding
\* keyword; otherwise the matched state, whatever the state was before.
C21_RecentMatchByPriority ==
    (last.hasOut /\ Cardinality(C21_Matched) = 1) =>
        LET before == toLowerCase(C21_Before)
            x == CHOOSE c \in C21_Matched : TRUE
        IN  perceptionState =
              IF includesAny(before, LockingWords) THEN "LOCKING"
              ELSE IF x = "SCANNING" /\ includesAny(before, GuidingWords) THEN "GUIDING"
              ELSE x

\* "Found " was committed by an earlier turn and left the state Locking; the
\* first fragment of the next turn is "Left" and the state is Guiding.
C21_Witness ==
    /\ last.hasOut
    /\ last.frag = <<"L","e","f","t">> /\ last.outText = <<"L","e","f","t">>
    /\ last.prevPerc = "LOCKING"
    /\ committed # <<>>
    /\ committed[Len(committed)].text = <<"F","o","u","n","d">>
    /\ perceptionState = "GUIDING"

\* C22: permission denial is terminal without retry.  A step in which the
\* device request of a start attempt is rejected because access is denied
\* issues no further device request: the attempt ends there, with the
\* permission error message set, and never reaches the session connect.
C22_DenialTerminal ==
    [][\A a \in Attempts :
          (GumFallback(a, "NotAllowedError") \/ GumReject(a, "NotAllowedError")) =>
              /\ pc'[a] = "failed"
              /\ errorMessage' = "Permission denied. Enable Camera/Mic."]_vars

\* C23: the resolution fallback is non-fatal.  The step in which the request
\* with the preferred video constraints is rejected changes no React state and
\* no ref, stops nothing and closes nothing: it only issues the request with
\* default constraints.  When that request is granted the stream is stored and
\* its tracks are live, the camera is active, the error message and the status
\* are what they were, and the attempt stands where a granted first request
\* leaves it, before the connect that its next step issues.
C23_FallbackNonFatal ==
    [][\A a \in Attempts :
          /\ (\E err \in ErrKinds : GumFallback(a, err)) =>
                /\ UNCHANGED <<uiVars, refVars>>
                /\ UNCHANGED <<socket, tracks, timers, srcState>>
                /\ pc'[a] = "gum2"
          /\ (pc[a] = "gum2" /\ GumResolve(a)) =>
                /\ mediaStreamRef' = a /\ a \in tracks'
                /\ isCameraActive'
                /\ errorMessage' = errorMessage /\ status' = status
                /\ pc'[a] = "resume"
          /\ Resumed(a) =>
                /\ pc'[a] = "connect" /\ socket'[a] = "connecting"
                /\ UNCHANGED <<uiVars, refVars>>]_vars

\* The first request was rejected and the second has just been granted: the
\* stream is stored and live, the camera is active, the status is Connecting
\* and no error message is set.
C23_Witness ==
    /\ last.op = "fallback"
    /\ pc[1] = "resume"
    /\ mediaStreamRef = 1 /\ 1 \in tracks
    /\ isCameraActive
    /\ status = "CONNECTING" /\ errorMessage = "null"

\* C24: Stop during Connecting destroys the attempt.  Attempt a is the only
\* one begun and is still suspended in its device request, its resume or its
\* connect, while the component is mounted, the status is Disconnected and no
\* error message is set: the user clicked Stop while it was Connecting.  From
\* then on no step makes the status Connected, starts a frame timer, stores a
\* media stream or a session handle, or leaves the session of the attempt
\* connecting or open.
C24_StopDestroysAttempt ==
    [][\A a \in Attempts :
          (/\ mounted /\ status = "DISCONNECTED" /\ errorMessage = "null"
           /\ pc[a] \in {"gum1", "gum2", "resume", "connect"}
           /\ \A b \in Attempts \ {a} : pc[b] = "idle") =>
              /\ status' # "CONNECTED"
              /\ timers' = {}
              /\ mediaStreamRef' = 0 /\ sessionRef' = 0
              /\ socket'[a] \notin {"connecting", "open"}]_vars

\* C25: the Error status does not persist.  ConnectionStatus.ERROR is the
\* status of no state between handlers, and every failure path (the catch of
\* startSession, onerror, onclose) ends with status Disconnected and
\* perception Idle.
C25_ErrorNotPersistent ==
    [][/\ status' # "ERROR"
       /\ \A a \in Attempts :
             (\/ \E err \in ErrKinds : GumReject(a, err) \/ ConnectReject(a, err)
              \/ OnError(a)
              \/ OnClose(a)) =>
                 /\ status' = "DISCONNECTED"
                 /\ perceptionState' = "IDLE"]_vars

\* The catch of startSession has just run for the first attempt: the message
\* is set, the status is Disconnected and perception is Idle.
C25_Witness ==
    /\ pc[1] = "failed"
    /\ consec >= 1
    /\ errorMessage \in {"Permission denied. Enable Camera/Mic.", "Link failed. Check network."}
    /\ status = "DISCONNECTED" /\ perceptionState = "IDLE"

\* C26: a decode failure aborts the rest of its message.  The step in which
\* the decode of a message's audio fails processes none of the message's
\* other fields: the playback queue and its sources, both transcript buffers
\* and their displayed copies, the perception state, the history and the
\* clock are what they were, and no source is started.  The step in which the
\* message arrived changed none of these either, except the clock, which it
\* raised to the device's current time.
C26_DecodeFailureAborts ==
    [][/\ \A p \in pending :
             DecodeFail(p) =>
                 /\ UNCHANGED <<sourcesRef, srcState, nextStartTimeRef>>
                 /\ UNCHANGED <<activeInputRef, activeOutputRef, currentInput, currentOutput>>
                 /\ UNCHANGED <<perceptionState, history>>
                 /\ UNCHANGED <<startLog, committed>>
       /\ segSeq' # segSeq =>
             /\ UNCHANGED <<sourcesRef, srcState>>
             /\ UNCHANGED <<activeInputRef, activeOutputRef, currentInput, currentOutput>>
             /\ UNCHANGED <<perceptionState, history>>
             /\ UNCHANGED <<startLog, committed>>
             /\ nextStartTimeRef' = Max(nextStartTimeRef, ctxTime[audioContextOutRef])]_vars

\* The decode has just failed for a message that also carried other fields
\* (interrupted, "hi", "left", turn complete).  "found", received while the
\* decode was running, is still in the output buffer and perception is still
\* Locking; nothing was committed or queued; the clock stands at the device
\* time to which the message's arrival raised it.
C26_Witness ==
    /\ last.op = "failed" /\ last.dropped
    /\ status = "CONNECTED"
    /\ activeOutputRef = <<"f","o","u","n","d">> /\ activeInputRef = <<>>
    /\ perceptionState = "LOCKING"
    /\ history = <<>> /\ sourcesRef = {}
    /\ nextStartTimeRef = 1
====
